---- MODULE Spec2Model ----
(***************************************************************************)
(* Model of the Steam library catalog of src/main.py: the TTL cache of    *)
(* SteamLibraryManager (refresh_game_cache, get_all_games), the manifest  *)
(* scan that fills it, and the ranking of search_games.                   *)
(*                                                                         *)
(* Python strings are sequences of one-character strings, paths are       *)
(* sequences of path components, a dict is a sequence of entries in       *)
(* insertion order, and an operation that can raise returns a record      *)
(* with a "raised" field.                                                 *)
(***************************************************************************)
EXTENDS Integers, Sequences, FiniteSets, TLC

(***************************************************************************)
(* Bounds of the model.                                                    *)
(***************************************************************************)
MaxFiles == 3      \* manifests in one directory listing of the initial disk at most
MaxTicks == 2      \* clock advances at most
TickStep == 150    \* seconds per clock advance
MaxScans == 3      \* re-scans in one behaviour at most
MaxEdits == 1      \* manifest rewrites by the platform client at most

(***************************************************************************)
(* Characters and strings.                                                 *)
(***************************************************************************)
UpperLetters == <<"A","B","C","D","E","F","G","H","I","J","K","L","M",
                  "N","O","P","Q","R","S","T","U","V","W","X","Y","Z">>
LowerLetters == <<"a","b","c","d","e","f","g","h","i","j","k","l","m",
                  "n","o","p","q","r","s","t","u","v","w","x","y","z">>
Digits == <<"0","1","2","3","4","5","6","7","8","9">>

Range(s) == {s[i] : i \in DOMAIN s}
UpperSet == Range(UpperLetters)
DigitSet == Range(Digits)
WordChars == Range(UpperLetters) \cup Range(LowerLetters) \cup Range(Digits) \cup {"_"}

IndexOf(c, s) == CHOOSE i \in DOMAIN s : s[i] = c

\* str.lower() on one character
LowerChar(c) ==
    IF c \in UpperSet THEN LowerLetters[IndexOf(c, UpperLetters)] ELSE c

\* str.lower()
Lower(s) == [i \in DOMAIN s |-> LowerChar(s[i])]

IsSpace(c) == c \in {" ", "\t", "\n", "\r"}

RECURSIVE LStrip(_)
LStrip(s) == IF s # <<>> /\ IsSpace(Head(s)) THEN LStrip(Tail(s)) ELSE s

RECURSIVE RStrip(_)
RStrip(s) ==
    IF s # <<>> /\ IsSpace(s[Len(s)]) THEN RStrip(SubSeq(s, 1, Len(s) - 1)) ELSE s

\* str.strip()
Strip(s) == RStrip(LStrip(s))

\* s.startswith(p)
StartsWith(s, p) == Len(p) <= Len(s) /\ SubSeq(s, 1, Len(p)) = p

\* s.endswith(p)
EndsWith(s, p) == Len(p) <= Len(s) /\ SubSeq(s, Len(s) - Len(p) + 1, Len(s)) = p

\* does p occur in s at (1-based) index i
OccursAt(s, p, i) == i + Len(p) - 1 <= Len(s) /\ SubSeq(s, i, i + Len(p) - 1) = p

\* p in s
Contains(s, p) == \E i \in 1..(Len(s) + 1) : OccursAt(s, p, i)

\* the regular expression class \w
IsWordChar(c) == c \in WordChars

\* \b holds in s between index i-1 and index i
WordBoundaryAt(s, i) ==
    LET before == i > 1 /\ i - 1 <= Len(s) /\ IsWordChar(s[i - 1])
        after  == i >= 1 /\ i <= Len(s) /\ IsWordChar(s[i])
    IN  before # after

\* re.search(r'\b' + re.escape(p) + r'\b', s)
WordSearch(s, p) ==
    \E i \in 1..(Len(s) + 1) :
        /\ OccursAt(s, p, i)
        /\ WordBoundaryAt(s, i)
        /\ WordBoundaryAt(s, i + Len(p))

\* int(s): [raised |-> TRUE] is ValueError
IsDigitStr(s) == s # <<>> /\ \A i \in DOMAIN s : s[i] \in DigitSet

RECURSIVE DigitsValue(_)
DigitsValue(s) ==
    IF s = <<>> THEN 0
    ELSE 10 * DigitsValue(SubSeq(s, 1, Len(s) - 1)) + (IndexOf(s[Len(s)], Digits) - 1)

\* the value of an optional sign and the text after it
SignedValue(neg, body) ==
    IF IsDigitStr(body)
    THEN [raised |-> FALSE, val |-> IF neg THEN 0 - DigitsValue(body) ELSE DigitsValue(body)]
    ELSE [raised |-> TRUE, val |-> 0]

ParseStripped(s) ==
    IF s # <<>> /\ Head(s) \in {"-", "+"} THEN SignedValue(Head(s) = "-", Tail(s))
    ELSE SignedValue(FALSE, s)

ParseInt(s) == ParseStripped(Strip(s))

\* str(n) for n >= 0
RECURSIVE NatToStr(_)
NatToStr(n) ==
    IF n < 10 THEN <<Digits[n + 1]>> ELSE NatToStr(n \div 10) \o <<Digits[(n % 10) + 1]>>



(***************************************************************************)
(* Paths: a path is the sequence of its components, and "" (or None) is   *)
(* the empty sequence.                                                     *)
(***************************************************************************)
NoPath == <<>>

\* os.path.join(p, c) for one relative component c
Join(p, c) == Append(p, c)

\* os.path.dirname(p)
DirName(p) == IF p = <<>> THEN <<>> ELSE SubSeq(p, 1, Len(p) - 1)

cSteamapps == <<"s","t","e","a","m","a","p","p","s">>
cCommon == <<"c","o","m","m","o","n">>
cManifestPrefix == <<"a","p","p","m","a","n","i","f","e","s","t","_">>
cAcfSuffix == <<".","a","c","f">>
cNonSteamPrefix == <<"n","o","n","s","t","e","a","m","_">>
cUnknownGame == <<"U","n","k","n","o","w","n"," ","G","a","m","e"," ","(">>

(***************************************************************************)
(* What vdf.loads returns: a dict, here the sequence of its entries.  An  *)
(* entry is a string leaf (t = "str", value s) or a nested block          *)
(* (t = "dict", entries d).  Keys are only compared for equality and are  *)
(* kept as atoms.                                                          *)
(***************************************************************************)
Leaf(k, s) == [k |-> k, t |-> "str", s |-> s, d |-> <<>>]
Block(k, d) == [k |-> k, t |-> "dict", s |-> <<>>, d |-> d]

\* k in d
HasKey(d, k) == \E i \in DOMAIN d : d[i].k = k

\* d[k]
Entry(d, k) == d[CHOOSE i \in DOMAIN d : d[i].k = k]

\* d.get(k, default) for a block of string leaves
GetStr(d, k, default) == IF HasKey(d, k) THEN Entry(d, k).s ELSE default

(***************************************************************************)
(* A file on disk, as far as open/read/vdf.loads can tell: "unreadable"   *)
(* makes open or read raise, "garbage" makes vdf.loads raise, "ok" parses *)
(* to data.                                                                *)
(***************************************************************************)
TextFile(data) == [status |-> "ok", data |-> data]
GarbageFile == [status |-> "garbage", data |-> <<>>]
UnreadableFile == [status |-> "unreadable", data |-> <<>>]
AbsentFile == [status |-> "absent", data |-> <<>>]

\* None, as the value of an Optional[Dict]
None == [none |-> TRUE, data |-> <<>>]
Some(data) == [none |-> FALSE, data |-> data]

\* the library directory record of the disk at path p (os.path.exists, os.listdir)
DirExists(dk, p) == \E i \in DOMAIN dk.libs : dk.libs[i].dir = p
Listing(dk, p) == dk.libs[CHOOSE i \in DOMAIN dk.libs : dk.libs[i].dir = p].files

(***************************************************************************)
(* _find_library_paths                                                     *)
(***************************************************************************)
\* the variant without the os.path.exists test of line 100
RECURSIVE IndexLibrariesUnchecked(_, _)
IndexLibrariesUnchecked(dk, entries) ==
    IF entries = <<>> THEN <<>>
    ELSE (IF Head(entries).t = "str" THEN <<Join(Head(entries).s, cSteamapps)>> ELSE <<>>)
         \o IndexLibrariesUnchecked(dk, Tail(entries))

RECURSIVE IndexLibraries(_, _)
IndexLibraries(dk, entries) ==
    IF entries = <<>> THEN <<>>
    ELSE LET e == Head(entries)
             rest == IndexLibraries(dk, Tail(entries))
         IN  IF e.t = "str" /\ DirExists(dk, Join(e.s, cSteamapps))
             THEN <<Join(e.s, cSteamapps)>> \o rest
             ELSE rest

FindLibraryPaths(sp, dk) ==
    IF sp = NoPath THEN <<>>
    ELSE LET steamapps_path == Join(sp, cSteamapps)
         IN  IF ~DirExists(dk, steamapps_path) THEN <<>>
             ELSE <<steamapps_path>> \o
                  (IF dk.index.status = "ok"
                      /\ HasKey(dk.index.data, "LibraryFolders")
                      /\ Entry(dk.index.data, "LibraryFolders").t = "dict"
                   THEN IndexLibraries(dk, Entry(dk.index.data, "LibraryFolders").d)
                   ELSE <<>>)

(***************************************************************************)
(* _parse_acf_file, memoized by functools.lru_cache on the path: the memo *)
(* is a sequence of [path, result] pairs.                                  *)
(***************************************************************************)
MemoHas(memo, p) == \E i \in DOMAIN memo : memo[i].path = p
MemoGet(memo, p) == memo[CHOOSE i \in DOMAIN memo : memo[i].path = p].result

\* the body of _parse_acf_file
ReadAcf(file) == IF file.status = "ok" THEN Some(file.data) ELSE None

\* the memoized call: the result and the memo after it
Memoize(memo, p, result) ==
    [result |-> result, memo |-> Append(memo, [path |-> p, result |-> result])]

ParseAcfFile(memo, p, file) ==
    IF MemoHas(memo, p)
    THEN [result |-> MemoGet(memo, p), memo |-> memo]
    ELSE Memoize(memo, p, ReadAcf(file))

(***************************************************************************)
(* _get_game_info_from_acf on a parse result.  kind is "none" (return     *)
(* None), "game" (a GameInfo) or "raise" (AttributeError when AppState is *)
(* a string leaf, ValueError when int() rejects LastPlayed or Playtime).  *)
(* The model's disks hold no icon files, so the icon path is "".          *)
(***************************************************************************)
NoGame == [name |-> <<>>, appid |-> <<>>, install_path |-> NoPath, icon_path |-> NoPath,
           library_path |-> NoPath, is_steam_game |-> TRUE,
           last_played |-> 0, playtime_minutes |-> 0]

\* lines 264-271: the install path below the library's common directory
FullInstallPath(game_library_path, install_path) ==
    IF install_path # <<>>
    THEN Join(Join(game_library_path, cCommon), install_path)
    ELSE NoPath

\* lines 273-293: the int() conversions and the GameInfo
BuildGameInfo(appid, name, install_path, game_library_path, last_played, playtime) ==
    IF last_played.raised \/ playtime.raised
    THEN [kind |-> "raise", game |-> NoGame]
    ELSE [kind |-> "game",
          game |-> [name |-> name, appid |-> appid,
                    install_path |-> FullInstallPath(game_library_path, install_path),
                    icon_path |-> NoPath,
                    library_path |-> game_library_path,
                    is_steam_game |-> TRUE,
                    last_played |-> last_played.val,
                    playtime_minutes |-> playtime.val]]

\* name = app_state.get('name', f'Unknown Game ({appid})')
GameName(app_state, appid) == GetStr(app_state, "name", cUnknownGame \o appid \o <<")">>)

\* lines 256-293, on the AppState block
AppStateInfo(app_state, appid, acf_path) ==
    BuildGameInfo(appid,
                  GameName(app_state, appid),
                  GetStr(app_state, "installdir", <<>>),
                  DirName(DirName(acf_path)),
                  ParseInt(GetStr(app_state, "LastPlayed", <<"0">>)),
                  ParseInt(GetStr(app_state, "Playtime", <<"0">>)))

\* lines 252-256, on the dict the parse returned
AcfDataInfo(data, acf_path) ==
    IF data = <<>> \/ ~HasKey(data, "AppState")
    THEN [kind |-> "none", game |-> NoGame]
    ELSE IF Entry(data, "AppState").t # "dict"
    THEN [kind |-> "raise", game |-> NoGame]
    ELSE AppStateInfo(Entry(data, "AppState").d,
                      GetStr(Entry(data, "AppState").d, "appid", <<>>), acf_path)

GameInfoFromAcf(acf_data, acf_path) ==
    IF acf_data.none THEN [kind |-> "none", game |-> NoGame]
    ELSE AcfDataInfo(acf_data.data, acf_path)


(***************************************************************************)
(* The games_cache dict: its entries in insertion order.  Assigning to a  *)
(* key that is present replaces the value and keeps the key's position.   *)
(***************************************************************************)
DictHas(items, k) == \E i \in DOMAIN items : items[i].key = k
DictGet(items, k) == items[CHOOSE i \in DOMAIN items : items[i].key = k].val

DictPut(items, k, v) ==
    IF DictHas(items, k)
    THEN [i \in DOMAIN items |-> IF items[i].key = k THEN [key |-> k, val |-> v] ELSE items[i]]
    ELSE Append(items, [key |-> k, val |-> v])

\* list(d.values())
Values(items) == [i \in DOMAIN items |-> items[i].val]

(***************************************************************************)
(* Bytes.  A bytes object is a sequence of numbers 0..255; the characters *)
(* of a decoded str are one-character strings, a control character, the   *)
(* double quote and the grave accent being written as their escapes.      *)
(***************************************************************************)
Printable ==
    <<
       " ", "!", "\\x22", "#", "$", "%", "&", "'", "(", ")", "*", "+", ",", "-", ".", "/",
       "0", "1", "2", "3", "4", "5", "6", "7", "8", "9", ":", ";", "<", "=", ">", "?",
       "@", "A", "B", "C", "D", "E", "F", "G", "H", "I", "J", "K", "L", "M", "N", "O",
       "P", "Q", "R", "S", "T", "U", "V", "W", "X", "Y", "Z", "[", "\\", "]", "^", "_",
       "\\x60", "a", "b", "c", "d", "e", "f", "g", "h", "i", "j", "k", "l", "m", "n", "o",
       "p", "q", "r", "s", "t", "u", "v", "w", "x", "y", "z", "{", "|", "}", "~"
    >>

ControlChars ==
    <<
       "\\x00", "\\x01", "\\x02", "\\x03", "\\x04", "\\x05", "\\x06", "\\x07",
       "\\x08", "\\x09", "\\x0a", "\\x0b", "\\x0c", "\\x0d", "\\x0e", "\\x0f",
       "\\x10", "\\x11", "\\x12", "\\x13", "\\x14", "\\x15", "\\x16", "\\x17",
       "\\x18", "\\x19", "\\x1a", "\\x1b", "\\x1c", "\\x1d", "\\x1e", "\\x1f",
       "\\x7f"
    >>

\* chr(b) for an ASCII byte b
Chr(b) ==
    IF b >= 32 /\ b <= 126 THEN Printable[b - 31]
    ELSE IF b = 127 THEN ControlChars[33]
    ELSE ControlChars[b + 1]

\* ord(c) for a printable ASCII character c
Ord(c) == 31 + IndexOf(c, Printable)

\* bytes.decode('utf-8', errors='ignore') on ASCII bytes and on the bytes
\* 0xF8..0xFF, which no UTF-8 sequence holds: those are dropped
Decode(bytes) ==
    LET kept == SelectSeq(bytes, LAMBDA b : b < 128)
    IN  [i \in DOMAIN kept |-> Chr(kept[i])]

\* str.encode() of a printable ASCII string
Encode(s) == [i \in DOMAIN s |-> Ord(s[i])]

\* content[a:b] with 0 <= a
Slice(content, a, b) ==
    IF a >= Len(content) \/ b <= a THEN <<>>
    ELSE SubSeq(content, a + 1, IF b < Len(content) THEN b ELSE Len(content))

\* content.find(pattern, start): the lowest index at or after start where pattern
\* occurs, or -1
Find(content, pattern, start) ==
    LET hits == {i \in start..(Len(content) - Len(pattern)) :
                     /\ content[i + 1] = pattern[1]
                     /\ Slice(content, i, i + Len(pattern)) = pattern}
    IN  IF hits = {} THEN 0 - 1 ELSE CHOOSE i \in hits : \A j \in hits : i <= j

appname_pattern == <<1, 97, 112, 112, 110, 97, 109, 101, 0>>     \* b'\x01appname\x00'
exe_pattern == <<1, 101, 120, 101, 0>>                           \* b'\x01exe\x00'

\* hash(s) of this process: str hashes are salted per process, so the value is
\* whatever the table hashes holds for s, and 0 for a string it does not hold
StrHash(hashes, s) ==
    IF \E i \in DOMAIN hashes : hashes[i].s = s
    THEN hashes[CHOOSE i \in DOMAIN hashes : hashes[i].s = s].v
    ELSE 0

Abs(n) == IF n < 0 THEN 0 - n ELSE n

(***************************************************************************)
(* _parse_shortcuts_binary.  Positions are Python's, counted from 0.  The *)
(* loop yields the games list and whether an exception ended it; the      *)
(* handler of lines 400-403 turns either into a normal return.            *)
(***************************************************************************)
Extracted(games, fault) == [games |-> games, fault |-> fault]

\* lines 390-396: the dict appended for one record
ShortcutEntry(hashes, appname, exe_path) ==
    [appname |-> appname, exe |-> exe_path,
     appid |-> Abs(StrHash(hashes, appname \o exe_path)) % 1000000]

\* lines 384-396, exe_pos being the position after the exe marker:
\* content[exe_pos] raises IndexError when the marker ends the buffer
ReadExe(hashes, content, games, appname, exe_pos) ==
    IF exe_pos >= Len(content) THEN Extracted(games, TRUE)
    ELSE IF content[exe_pos + 1] > 0 /\ content[exe_pos + 1] < 500
    THEN Extracted(Append(games,
                          ShortcutEntry(hashes, appname,
                                        Decode(Slice(content, exe_pos + 1,
                                                     exe_pos + 1 + content[exe_pos + 1])))),
                   FALSE)
    ELSE Extracted(games, FALSE)

\* lines 381-383: content.find(exe_pattern, pos), found being its result
LookForExe(hashes, content, games, appname, found) ==
    IF found # 0 - 1 THEN ReadExe(hashes, content, games, appname, found + 5)
    ELSE Extracted(games, FALSE)

RECURSIVE ScanShortcuts(_, _, _, _)

\* line 398 after a record was looked at: the loop goes on unless an exception ended it
ScanOn(hashes, content, pos, r) ==
    IF r.fault THEN r ELSE ScanShortcuts(hashes, content, pos + 1, r.games)

\* lines 376-398, pos being the position of the length byte of the name
ReadName(hashes, content, pos, games, str_len) ==
    ScanOn(hashes, content, pos + 1 + str_len,
           LookForExe(hashes, content, games,
                      Decode(Slice(content, pos + 1, pos + 1 + str_len)),
                      Find(content, exe_pattern, pos + 1 + str_len)))

\* lines 370-371 and 398 over the positions that hold no name marker: pos += 1
\* until the marker is at pos, found being the next position that holds it (or
\* -1); the test of line 370 is made there
SkipTo(hashes, content, games, found) ==
    IF found = 0 - 1 THEN Extracted(games, FALSE)
    ELSE ScanShortcuts(hashes, content, found, games)

\* lines 370-398: the while loop from position pos on
ScanShortcuts(hashes, content, pos, games) ==
    IF ~(pos < Len(content) - 100) THEN Extracted(games, FALSE)
    ELSE IF Slice(content, pos, pos + 9) = appname_pattern
    THEN IF content[pos + 10] > 0 /\ content[pos + 10] < 100
         THEN ReadName(hashes, content, pos + 9, games, content[pos + 10])
         ELSE ScanShortcuts(hashes, content, pos + 10, games)
    ELSE SkipTo(hashes, content, games, Find(content, appname_pattern, pos + 1))

\* lines 400-403 with a handler that lets the exception out
Uncaught(r) == [raised |-> r.fault, games |-> IF r.fault THEN <<>> ELSE r.games]

\* lines 400-403: the exception is written to stderr and games is returned
Caught(r) == [raised |-> FALSE, games |-> r.games]

ParseShortcutsBinary(hashes, content) == Caught(ScanShortcuts(hashes, content, 0, <<>>))

(***************************************************************************)
(* _find_non_steam_games.  The environment dk holds, besides the files,   *)
(* the str hash of the process (str_hash).  The exe string is never taken *)
(* apart on this path, so it is kept as a path of one component.          *)
(***************************************************************************)
NonSteamInfo(game) ==
    [name |-> game.appname, appid |-> cNonSteamPrefix \o NatToStr(game.appid),
     install_path |-> <<game.exe>>, icon_path |-> NoPath, library_path |-> NoPath,
     is_steam_game |-> FALSE, last_played |-> 0, playtime_minutes |-> 0]

RECURSIVE ShortcutInfos(_)
ShortcutInfos(games) ==
    IF games = <<>> THEN <<>>
    ELSE (IF Head(games).appname # <<>> /\ Head(games).exe # <<>>
          THEN <<NonSteamInfo(Head(games))>> ELSE <<>>) \o ShortcutInfos(Tail(games))

\* lines 305-356: the user directories in turn; a shortcuts.vdf that is absent
\* or cannot be read yields nothing
RECURSIVE UserShortcuts(_, _)
UserShortcuts(hashes, users) ==
    IF users = <<>> THEN <<>>
    ELSE (IF Head(users).status = "ok"
          THEN ShortcutInfos(ParseShortcutsBinary(hashes, Head(users).content).games)
          ELSE <<>>)
         \o UserShortcuts(hashes, Tail(users))

\* the variant without the "if not self.steam_path" guard
FindNonSteamGamesUnguarded(sp, dk) == UserShortcuts(dk.str_hash, dk.userdata)

FindNonSteamGames(sp, dk) ==
    IF sp = NoPath THEN <<>> ELSE UserShortcuts(dk.str_hash, dk.userdata)

(***************************************************************************)
(* refresh_game_cache.  The scan state st carries the dict being filled,  *)
(* the lru_cache memo and whether an exception has left the function.     *)
(***************************************************************************)
cache_duration == 300

\* filename.endswith('.acf') and filename.startswith('appmanifest_')
IsManifestName(filename) == EndsWith(filename, cAcfSuffix) /\ StartsWith(filename, cManifestPrefix)

\* one iteration of the loop over os.listdir(library_path)
\* lines 424-426, or the exception leaving the loop
Record(st, memo, info) ==
    IF info.kind = "raise"
    THEN [st EXCEPT !.memo = memo, !.raised = TRUE]
    ELSE IF info.kind = "game"
    THEN [st EXCEPT !.memo = memo, !.items = DictPut(st.items, info.game.appid, info.game)]
    ELSE [st EXCEPT !.memo = memo]

\* line 423, given the outcome of the memoized parse
ScanParsed(st, acf_path, parsed) ==
    Record(st, parsed.memo, GameInfoFromAcf(parsed.result, acf_path))

ScanManifest(st, acf_path, file) == ScanParsed(st, acf_path, ParseAcfFile(st.memo, acf_path, file))

ScanFile(st, library_path, f) ==
    IF st.raised \/ ~IsManifestName(f.name) THEN st
    ELSE ScanManifest(st, Join(library_path, f.name), f.content)

RECURSIVE ScanFiles(_, _, _)
ScanFiles(st, library_path, files) ==
    IF files = <<>> THEN st
    ELSE ScanFiles(ScanFile(st, library_path, Head(files)), library_path, Tail(files))

RECURSIVE ScanLibraries(_, _, _)
ScanLibraries(st, dk, paths) ==
    IF paths = <<>> THEN st
    ELSE ScanLibraries(
             IF DirExists(dk, Head(paths))
             THEN ScanFiles(st, Head(paths), Listing(dk, Head(paths)))
             ELSE st,
             dk, Tail(paths))

\* the variant without the "not in self.games_cache" test
AddNonSteamAlways(items, game) == DictPut(items, game.appid, game)

\* if game.appid not in self.games_cache: self.games_cache[game.appid] = game
AddNonSteam(items, game) ==
    IF ~DictHas(items, game.appid) THEN DictPut(items, game.appid, game) ELSE items

RECURSIVE AddNonSteamGames(_, _)
AddNonSteamGames(items, games) ==
    IF games = <<>> THEN items
    ELSE AddNonSteamGames(AddNonSteam(items, Head(games)), Tail(games))

\* the variant that assigns the timestamp before the scan
TimestampAtStart(raised, old_timestamp, current_time) == current_time

\* the timestamp the function leaves behind: assigned on its last line only
TimestampAfter(raised, old_timestamp, current_time) ==
    IF raised THEN old_timestamp ELSE current_time

\* the variant that compares with <= instead of <
CacheValidInclusive(timestamp, current_time) == current_time - timestamp <= cache_duration

\* is the cache still valid at current_time
CacheValid(timestamp, current_time) == current_time - timestamp < cache_duration

(* The manager's fields m = [library_paths, games_cache, cache_timestamp,  *)
(* memo] after refresh_game_cache() at current_time, with scanned (a       *)
(* re-scan was started) and raised (an exception left the function).  A    *)
(* re-scan binds games_cache to a new dict, whose identity is new_id.      *)
\* lines 428-435, given the state st the loop over the libraries ended in
FinishRefresh(m, sp, dk, current_time, new_id, library_paths, st) ==
    [m |-> [library_paths |-> library_paths,
            games_cache |->
                [id |-> new_id,
                 items |-> IF st.raised THEN st.items
                           ELSE AddNonSteamGames(st.items, FindNonSteamGames(sp, dk))],
            cache_timestamp |-> TimestampAfter(st.raised, m.cache_timestamp, current_time),
            memo |-> st.memo],
     scanned |-> TRUE,
     raised |-> st.raised]

\* lines 413-426
Rescan(m, sp, dk, current_time, new_id, library_paths) ==
    FinishRefresh(m, sp, dk, current_time, new_id, library_paths,
                  ScanLibraries([items |-> <<>>, memo |-> m.memo, raised |-> FALSE],
                                dk, library_paths))

RefreshGameCache(m, sp, dk, current_time, new_id) ==
    IF CacheValid(m.cache_timestamp, current_time)
    THEN [m |-> m, scanned |-> FALSE, raised |-> FALSE]
    ELSE Rescan(m, sp, dk, current_time, new_id, FindLibraryPaths(sp, dk))


(***************************************************************************)
(* search_games: the score of one game, and the stable descending sort.   *)
(***************************************************************************)
SecondsPerDay == 60 * 60 * 24

\* the variant without the startswith rung
BaseScoreNoPrefix(game_name, query) ==
    IF game_name = query THEN 100
    ELSE IF WordSearch(game_name, query) THEN 60
    ELSE IF Contains(game_name, query) THEN 40
    ELSE 0

\* the match ladder on the lowercased name (query already lowercased and stripped)
BaseScore(game_name, query) ==
    IF game_name = query THEN 100
    ELSE IF StartsWith(game_name, query) THEN 80
    ELSE IF WordSearch(game_name, query) THEN 60
    ELSE IF Contains(game_name, query) THEN 40
    ELSE 0

\* the variant that compares the days with <= instead of <
RecencyBoostInclusive(game, t) ==
    IF game.last_played > 0
    THEN IF t - game.last_played <= 7 * SecondsPerDay THEN 20
         ELSE IF t - game.last_played <= 30 * SecondsPerDay THEN 10
         ELSE 0
    ELSE 0

\* days_since_played = (time.time() - last_played) / (60 * 60 * 24), compared
\* with 7 and 30 over the reals
RecencyBoost(game, t) ==
    IF game.last_played > 0
    THEN IF t - game.last_played < 7 * SecondsPerDay THEN 20
         ELSE IF t - game.last_played < 30 * SecondsPerDay THEN 10
         ELSE 0
    ELSE 0

PlaytimeBoost(game) == IF game.playtime_minutes > 60 THEN 5 ELSE 0

Score(game, query, t) ==
    BaseScore(Lower(game.name), query) + RecencyBoost(game, t) + PlaytimeBoost(game)

\* the loop that builds scored_games
RECURSIVE ScoreGames(_, _, _)
ScoreGames(games, query, t) ==
    IF games = <<>> THEN <<>>
    ELSE (IF Score(Head(games), query, t) > 0
          THEN <<[game |-> Head(games), score |-> Score(Head(games), query, t)]>>
          ELSE <<>>) \o ScoreGames(Tail(games), query, t)

\* the variant of an unstable sort: an element goes ahead of its equals
InsertBeforeEquals(sorted, x) ==
    LET ahead == {i \in DOMAIN sorted : sorted[i].score > x.score}
        k == IF ahead = {} THEN 0 ELSE CHOOSE i \in ahead : \A j \in ahead : j <= i
    IN  SubSeq(sorted, 1, k) \o <<x>> \o SubSeq(sorted, k + 1, Len(sorted))

\* list.sort(key=lambda x: x[1], reverse=True): stable, so an element goes
\* behind every element already placed whose score is not smaller
InsertByScore(sorted, x) ==
    LET ahead == {i \in DOMAIN sorted : sorted[i].score >= x.score}
        k == IF ahead = {} THEN 0 ELSE CHOOSE i \in ahead : \A j \in ahead : j <= i
    IN  SubSeq(sorted, 1, k) \o <<x>> \o SubSeq(sorted, k + 1, Len(sorted))

RECURSIVE SortByScore(_)
SortByScore(scored) ==
    IF scored = <<>> THEN <<>>
    ELSE InsertByScore(SortByScore(SubSeq(scored, 1, Len(scored) - 1)), scored[Len(scored)])

\* query.lower().strip()
NormalizeQuery(query) == Strip(Lower(query))

\* the ranked (game, score) pairs of search_games for a non-empty query
RankGames(items, query, t) == SortByScore(ScoreGames(Values(items), NormalizeQuery(query), t))

Games(scored) == [i \in DOMAIN scored |-> scored[i].game]


(***************************************************************************)
(* launch_game: the method of the manager and the module's function.  A   *)
(* launch yields the arguments os.startfile was called with, in order,    *)
(* and the boolean returned; os.startfile itself succeeds or raises.      *)
(***************************************************************************)
cSteamUrl == <<"s","t","e","a","m",":","/","/","r","u","n","g","a","m","e","i","d","/">>

Launched(started, success) == [started |-> started, success |-> success]

\* os.path.exists(install_path) for a path that is one string
ExeExists(dk, install_path) == \E e \in dk.exes : install_path = <<e>>

\* the variant without the os.path.exists test of line 497
LaunchAnyShortcut(dk, game, startfile_ok) ==
    IF game.is_steam_game THEN Launched(<<<<cSteamUrl \o game.appid>>>>, startfile_ok)
    ELSE Launched(<<game.install_path>>, startfile_ok)

\* SteamLibraryManager.launch_game(game), lines 487-505
LaunchGameInfo(dk, game, startfile_ok) ==
    IF game.is_steam_game THEN Launched(<<<<cSteamUrl \o game.appid>>>>, startfile_ok)
    ELSE IF ExeExists(dk, game.install_path)
    THEN Launched(<<game.install_path>>, startfile_ok)
    ELSE Launched(<<>>, FALSE)

\* launch_game(appid), lines 624-637, its get_all_games having ended as r
LaunchGame(r, dk, appid, startfile_ok) ==
    IF r.raised THEN Launched(<<>>, FALSE)
    ELSE IF DictHas(r.m.games_cache.items, appid)
    THEN LaunchGameInfo(dk, DictGet(r.m.games_cache.items, appid), startfile_ok)
    ELSE Launched(<<>>, FALSE)


(***************************************************************************)
(* The disks of the model.                                                 *)
(***************************************************************************)
SteamRoot == <<<<"C",":">>, <<"S","t","e","a","m">>>>
SecondRoot == <<<<"D",":">>, <<"L","i","b">>>>
GoneRoot == <<<<"E",":">>, <<"G","o","n","e">>>>
RootLibrary == Join(SteamRoot, cSteamapps)
SecondLibrary == Join(SecondRoot, cSteamapps)

\* the clock when the process starts: 35 days after the epoch, so that
\* "more than 30 days ago" has room
StartTime == 35 * SecondsPerDay

sHalfLife == <<"H","a","l","f","-","L","i","f","e">>
sPortal == <<"P","o","r","t","a","l">>
sHalo == <<"H","a","l","o">>
sHaloCE == <<"H","a","l","o"," ","C","E">>
sPortal2 == <<"P","o","r","t","a","l"," ","2">>
sBigHal == <<"B","i","g"," ","H","a","l">>
sShale == <<"S","h","a","l","e">>
sSeven == <<"S","e","v","e","n">>
sDoom == <<"D","o","o","m">>
sQuake == <<"Q","u","a","k","e">>

\* LastPlayed values: 7 days before StartTime + 150 s, 10 days before StartTime,
\* 30 days before StartTime + 150 s
sWeekAgo == <<"2","4","1","9","3","5","0">>
sTenDaysAgo == <<"2","1","6","0","0","0","0">>
sMonthAgo == <<"4","3","2","1","5","0">>

ManifestName(n) == cManifestPrefix \o n \o cAcfSuffix

Manifest(appid, name, installdir, last_played, playtime) ==
    TextFile(<<Block("AppState",
                     <<Leaf("appid", appid), Leaf("name", name), Leaf("installdir", installdir),
                       Leaf("LastPlayed", last_played), Leaf("Playtime", playtime)>>)>>)

\* The manifests a library can hold, in listing order: the file's name, its
\* content, and the content the platform client may later rewrite it to.
Pool ==
    << [name |-> ManifestName(<<"1","0">>),
        content |-> Manifest(<<"1","0">>, sHalfLife, sHalfLife, <<"0">>, <<"0">>),
        rewrite |-> Manifest(<<"1","0">>, sHalfLife, sHalfLife, sWeekAgo, <<"6","1">>)],
       [name |-> ManifestName(<<"4","0","0">>),
        content |-> Manifest(<<"4","0","0">>, sPortal, sPortal, <<"0">>, <<"0">>),
        rewrite |-> Manifest(<<"4","0","0">>, sPortal, sPortal, <<"0">>, <<"0">>)],
       [name |-> ManifestName(<<"2","0">>),
        content |-> Manifest(<<"2","0">>, sHalo, sHalo, <<"0">>, <<"0">>),
        rewrite |-> Manifest(<<"2","0">>, sHaloCE, sHalo, <<"0">>, <<"6","1">>)],
       \* a second manifest that carries appid 20
       [name |-> ManifestName(<<"2","1">>),
        content |-> Manifest(<<"2","0">>, sHaloCE, sHaloCE, sMonthAgo, <<"0">>),
        rewrite |-> Manifest(<<"2","0">>, sHaloCE, sHaloCE, sMonthAgo, <<"0">>)],
       \* LastPlayed is no number
       [name |-> ManifestName(<<"6","4">>),
        content |-> Manifest(<<"6","4">>, sDoom, sDoom, <<"a","b","c">>, <<"0">>),
        rewrite |-> Manifest(<<"6","4">>, sDoom, sDoom, <<"a","b","c">>, <<"0">>)],
       [name |-> ManifestName(<<"3","0">>),
        content |-> Manifest(<<"3","0">>, sBigHal, sBigHal, sTenDaysAgo, <<"6","0">>),
        rewrite |-> Manifest(<<"3","0">>, sBigHal, sBigHal, sTenDaysAgo, <<"6","0">>)],
       \* no LastPlayed, no Playtime, no installdir
       [name |-> ManifestName(<<"4","0">>),
        content |-> TextFile(<<Block("AppState",
                        <<Leaf("appid", <<"4","0">>), Leaf("name", sShale)>>)>>),
        rewrite |-> TextFile(<<Block("AppState",
                        <<Leaf("appid", <<"4","0">>), Leaf("name", sShale)>>)>>)],
       [name |-> ManifestName(<<"6","2","0">>),
        content |-> Manifest(<<"6","2","0">>, sPortal2, sPortal2, sWeekAgo, <<"6","1">>),
        rewrite |-> Manifest(<<"6","2","0">>, sPortal2, sPortal2, sWeekAgo, <<"6","1">>)],
       \* vdf.loads rejects it
       [name |-> ManifestName(<<"6","0">>),
        content |-> GarbageFile,
        rewrite |-> Manifest(<<"6","0">>, sQuake, sQuake, <<"0">>, <<"0">>)],
       \* AppState is a string leaf
       [name |-> ManifestName(<<"6","3">>),
        content |-> TextFile(<<Leaf("AppState", <<"x">>)>>),
        rewrite |-> TextFile(<<Leaf("AppState", <<"x">>)>>)],
       \* a manifest whose appid has the shape of a shortcut's identifier
       [name |-> ManifestName(<<"7">>),
        content |-> Manifest(cNonSteamPrefix \o <<"7">>, sSeven, sSeven, <<"0">>, <<"0">>),
        rewrite |-> Manifest(cNonSteamPrefix \o <<"7">>, sSeven, sSeven, <<"0">>, <<"0">>)],
       \* no name, no appid
       [name |-> ManifestName(<<"5","0">>),
        content |-> TextFile(<<Block("AppState", <<Leaf("installdir", sDoom)>>)>>),
        rewrite |-> TextFile(<<Block("AppState", <<Leaf("installdir", sDoom)>>)>>)],
       \* cannot be opened
       [name |-> ManifestName(<<"6","1">>),
        content |-> UnreadableFile, rewrite |-> UnreadableFile],
       \* parses, without an AppState block
       [name |-> ManifestName(<<"6","2">>),
        content |-> TextFile(<<Leaf("UserConfig", <<"x">>)>>),
        rewrite |-> TextFile(<<Leaf("UserConfig", <<"x">>)>>)],
       \* a file of the library directory that is no manifest
       [name |-> ManifestName(<<"9">>) \o <<".","b","a","k">>,
        content |-> TextFile(<<Block("AppState", <<Leaf("appid", <<"9">>)>>)>>),
        rewrite |-> TextFile(<<Block("AppState", <<Leaf("appid", <<"9">>)>>)>>)] >>

OnDisk(p) == [name |-> p.name, content |-> p.content]

\* the files of pool at the indices in S, in pool's order
RECURSIVE PickFrom(_, _, _)
PickFrom(pool, S, i) ==
    IF i > Len(pool) THEN <<>>
    ELSE (IF i \in S THEN <<OnDisk(pool[i])>> ELSE <<>>) \o PickFrom(pool, S, i + 1)

Pick(S) == PickFrom(Pool, S, 1)

\* the directory listings of the model: up to MaxFiles neighbours of Pool
FileLists ==
    {fl \in {PickFrom(Pool, a..b, 1) : a \in 1..(Len(Pool) + 1), b \in 0..Len(Pool)} :
         Len(fl) <= MaxFiles}

NoIndex == AbsentFile
NoUsers == <<>>

\* libraryfolders.vdf contents: the legacy layout with a string leaf per
\* library, the current layout with a block per library, and broken ones
IndexFiles ==
    { GarbageFile,
      TextFile(<<Block("LibraryFolders",
                       <<Leaf("TimeNextStatsReport", GoneRoot), Leaf("1", SecondRoot)>>)>>),
      TextFile(<<Block("LibraryFolders", <<Block("1", <<Leaf("path", SecondRoot)>>)>>)>>),
      TextFile(<<Leaf("LibraryFolders", SecondRoot)>>),
      TextFile(<<Block("libraryfolders", <<Leaf("1", SecondRoot)>>)>>) }

\* shortcuts.vdf contents: records of a name field and an exe field, each a
\* marker, a length byte and the bytes, followed by the rest of the file
sBackslash == "\\"
ExeDoom == <<"C", ":", sBackslash, "d", "o", "o", "m", ".", "e", "x", "e">>
ExeQuake == <<"C", ":", sBackslash, "q", "u", "a", "k", "e", ".", "e", "x", "e">>

Field(marker, bytes) == marker \o <<Len(bytes)>> \o bytes
ShortcutRecord(name, exe) ==
    Field(appname_pattern, Encode(name)) \o Field(exe_pattern, Encode(exe))
Zeros(n) == [i \in 1..n |-> 0]

RecDoom == ShortcutRecord(sDoom, ExeDoom)
RecQuake == ShortcutRecord(sQuake, ExeQuake)
\* a record whose name is one byte that decodes to nothing
RecNameless == Field(appname_pattern, <<255>>) \o Field(exe_pattern, Encode(ExeDoom))

ShortcutsFile(records) == [status |-> "ok", content |-> records \o Zeros(101)]
NoShortcutsFile == [status |-> "absent", content |-> <<>>]

\* str hashes of a process: Doom and Quake both end as appid 7
HashesAlike ==
    <<[s |-> sDoom \o ExeDoom, v |-> 0 - 3000007], [s |-> sQuake \o ExeQuake, v |-> 7000007]>>
\* str hashes of another process: Quake ends as appid 20, the nameless record as 8
HashesApart ==
    <<[s |-> sQuake \o ExeQuake, v |-> 20], [s |-> ExeDoom, v |-> 8]>>

\* the user directories of a disk, with the str hash of the process scanning it
Users(userdata, str_hash) == [userdata |-> userdata, str_hash |-> str_hash]
NoUserData == Users(NoUsers, <<>>)
DoomUser == Users(<<ShortcutsFile(RecDoom)>>, HashesAlike)

UserDirs ==
    { Users(<<NoShortcutsFile>>, <<>>),
      Users(<<ShortcutsFile(<<>>)>>, <<>>),
      DoomUser,
      Users(<<ShortcutsFile(RecDoom \o RecQuake)>>, HashesAlike),
      Users(<<ShortcutsFile(RecQuake \o RecNameless)>>, HashesApart) }
    \cup {Users(<<ShortcutsFile(RecQuake), ShortcutsFile(c)>>, HashesAlike) :
              c \in {RecDoom, RecDoom \o RecQuake, RecQuake \o RecNameless}}

Library(dir, files) == [dir |-> dir, files |-> files]

\* the environment of a process: the libraries, the library index, the user
\* directories, the existing executables among exes, and the str hash
Disk(libs, index, u, exes) ==
    [libs |-> libs, index |-> index, userdata |-> u.userdata, exes |-> exes,
     str_hash |-> u.str_hash]

Disks ==
    \* the root library alone, holding any of the file lists
    {Disk(<<Library(RootLibrary, fl)>>, NoIndex, NoUserData, {}) : fl \in FileLists}
    \* a second library and a library index
    \cup {Disk(<<Library(RootLibrary, Pick({1})), Library(SecondLibrary, Pick(S))>>,
               ix, NoUserData, {}) :
              S \in {{3}, {4, 5}}, ix \in IndexFiles \cup {NoIndex}}
    \* shortcuts of the platform's users
    \cup {Disk(<<Library(RootLibrary, Pick(S))>>, NoIndex, u, {ExeDoom}) :
              S \in {{}, {3, 11}}, u \in UserDirs}
    \* an installation directory without its library directory
    \cup {Disk(<<Library(SecondLibrary, Pick({1}))>>, NoIndex, u, {}) :
              u \in {NoUserData, DoomUser}}

\* the disks on which _find_steam_installation finds nothing: no registry key and
\* no steam.exe, whatever else the disk holds
DisksWithoutSteam ==
    {Disk(<<Library(RootLibrary, Pick(S))>>, NoIndex, u, {ExeDoom}) :
         S \in {{}, {1, 2, 3}, {5}}, u \in {NoUserData, DoomUser}}


(***************************************************************************)
(* The state: the manager's fields, the memo of _parse_acf_file, the      *)
(* disk and the clock, and the outcome of the last call.                   *)
(***************************************************************************)
VARIABLES
    steam_path,        \* self.steam_path, set by __init__
    library_paths,     \* self.library_paths
    games_cache,       \* self.games_cache: [id |-> the dict object, items |-> its entries]
    cache_timestamp,   \* self.cache_timestamp
    acf_memo,          \* the lru_cache of _parse_acf_file
    disk,              \* the file system
    now,               \* time.time()
    scans,             \* re-scans started so far
    edits,             \* manifest rewrites so far
    last               \* the last call: what it was and how it ended

vars == <<steam_path, library_paths, games_cache, cache_timestamp, acf_memo,
          disk, now, scans, edits, last>>

\* the queries of the model
Queries ==
    { <<>>, <<" ">>, <<"h","a","l">>, <<" ","H","a","l">>, <<"a","l">>,
      <<"h","a","l","o">>, <<"x","y","z">> }

\* op: the call; time: the clock at the call; raised: it ended in an exception;
\* scanned: it started a re-scan; snapshot: the dict get_all_games returned;
\* scored: the sorted scored_games of a search; result: the records returned
NoCall == [op |-> "none", query |-> <<>>, time |-> 0, raised |-> FALSE, scanned |-> FALSE,
           snapshot |-> 0, scored |-> <<>>, result |-> <<>>]

\* the outcome of a call whose get_all_games ended as r
Outcome(op, query, r, scored, result) ==
    [op |-> op, query |-> query, time |-> now, raised |-> r.raised, scanned |-> r.scanned,
     snapshot |-> IF r.raised THEN 0 ELSE r.m.games_cache.id,
     scored |-> IF r.raised THEN <<>> ELSE scored,
     result |-> IF r.raised THEN <<>> ELSE result]

Manager == [library_paths |-> library_paths, games_cache |-> games_cache,
            cache_timestamp |-> cache_timestamp, memo |-> acf_memo]

\* __init__
Init ==
    /\ \/ steam_path = SteamRoot /\ disk \in Disks
       \/ steam_path = NoPath /\ disk \in DisksWithoutSteam
    /\ library_paths = <<>>
    /\ games_cache = [id |-> 0, items |-> <<>>]
    /\ cache_timestamp = 0
    /\ acf_memo = <<>>
    /\ now = StartTime
    /\ scans = 0
    /\ edits = 0
    /\ last = NoCall

\* the fields refresh_game_cache leaves behind
Refreshed(r) ==
    /\ library_paths' = r.m.library_paths
    /\ games_cache' = r.m.games_cache
    /\ cache_timestamp' = r.m.cache_timestamp
    /\ acf_memo' = r.m.memo
    /\ scans' = IF r.scanned THEN scans + 1 ELSE scans

\* a call whose refresh_game_cache ended as r
Call(op, query, r, scored) ==
    /\ r.scanned => scans < MaxScans
    /\ Refreshed(r)
    /\ last' = Outcome(op, query, r, scored,
                       IF query = <<>> THEN Values(r.m.games_cache.items) ELSE Games(scored))
    /\ UNCHANGED <<steam_path, disk, now, edits>>

\* lines 444-485 of search_games, after its get_all_games ended as r: an empty
\* query returns the snapshot's records unscored
Ranked(query, r) ==
    IF r.raised \/ query = <<>> THEN <<>> ELSE RankGames(r.m.games_cache.items, query, now)

SearchIn(query, r) == Call("search", query, r, Ranked(query, r))

\* get_all_games()
GetAll == Call("getAll", <<>>, RefreshGameCache(Manager, steam_path, disk, now, scans + 1), <<>>)

\* search_games(query)
Search(query) == SearchIn(query, RefreshGameCache(Manager, steam_path, disk, now, scans + 1))

\* the clock advances
Tick ==
    /\ now < StartTime + MaxTicks * TickStep
    /\ now' = now + TickStep
    /\ UNCHANGED <<steam_path, library_paths, games_cache, cache_timestamp, acf_memo,
                   disk, scans, edits, last>>

\* the content the platform client may rewrite the file f to
Rewrites(f) ==
    LET pool == Pool
    IN  {pool[i].rewrite : i \in {j \in DOMAIN pool : OnDisk(pool[j]) = f}}

\* the platform client rewrites one manifest of one library
EditManifest ==
    /\ edits < MaxEdits
    /\ \E i \in DOMAIN disk.libs : \E j \in DOMAIN disk.libs[i].files :
           \E c \in Rewrites(disk.libs[i].files[j]) :
               /\ c # disk.libs[i].files[j].content
               /\ disk' = [disk EXCEPT !.libs[i].files[j].content = c]
    /\ edits' = edits + 1
    /\ UNCHANGED <<steam_path, library_paths, games_cache, cache_timestamp, acf_memo,
                   now, scans, last>>

\* the Pool file that follows the last file of a listing
NextInstall(pool, files) ==
    IF files = <<>> THEN 1
    ELSE 1 + CHOOSE j \in DOMAIN pool : pool[j].name = files[Len(files)].name

\* the platform client installs a game: a new manifest appears in a library
InstallManifest ==
    /\ edits < MaxEdits
    /\ \E i \in DOMAIN disk.libs :
           LET pool == Pool
               n == NextInstall(pool, disk.libs[i].files)
           IN  /\ n <= Len(pool)
               /\ disk' = [disk EXCEPT !.libs[i].files = Append(@, OnDisk(pool[n]))]
    /\ edits' = edits + 1
    /\ UNCHANGED <<steam_path, library_paths, games_cache, cache_timestamp, acf_memo,
                   now, scans, last>>

Next ==
    \/ GetAll
    \/ \E q \in Queries : Search(q)
    \/ Tick
    \/ EditManifest
    \/ InstallManifest

Spec == Init /\ [][Next]_vars


(***************************************************************************)
(* _parse_shortcuts_binary on its own: the buffers are the content of the *)
(* one shortcuts.vdf of the disk, and the step applies the parser to it.   *)
(***************************************************************************)
sReadme == <<"C", ":", sBackslash, "r", "e", "a", "d", "m", "e", ".", "t", "x", "t">>
\* an executable path of 97 characters
ExeLong == <<"C", ":", sBackslash>> \o [i \in 1..90 |-> "a"] \o <<".", "e", "x", "e">>
ExeLonger == <<"D", ":", sBackslash>> \o [i \in 1..90 |-> "b"] \o <<".", "e", "x", "e">>

ShortcutNames == {sDoom, sQuake}
ShortcutExes == {ExeDoom, ExeQuake, ExeLong, ExeLonger, sReadme}

\* what precedes the records, the records, and what follows them
BufferHeads == {<<>>, Zeros(3)}
BufferBodies ==
    { RecDoom,
      RecDoom \o RecQuake,
      RecQuake \o RecNameless,
      ShortcutRecord(sDoom, ExeLong) \o ShortcutRecord(sQuake, ExeLonger),
      ShortcutRecord(sDoom, sReadme),
      Field(appname_pattern, Encode(sDoom)),
      RecDoom \o Field(appname_pattern, Encode(sQuake)),
      Field(appname_pattern, <<>>) \o Field(exe_pattern, Encode(ExeDoom)),
      Field(appname_pattern, Zeros(100)) \o Field(exe_pattern, Encode(ExeDoom)),
      Field(appname_pattern, Encode(sDoom)) \o Field(exe_pattern, <<>>) }
BufferTails ==
    { <<>>,
      Zeros(60),
      Zeros(101),
      \* the exe marker ends the buffer
      Zeros(100) \o exe_pattern,
      \* the length byte of the exe field says 200, four bytes follow
      Zeros(100) \o exe_pattern \o <<200>> \o Encode(<<"C", ":", sBackslash, "d">>) }

Buffers == {h \o b \o t : h \in BufferHeads, b \in BufferBodies, t \in BufferTails}

ParserDisks ==
    {Disk(<<Library(RootLibrary, <<>>)>>, NoIndex,
          Users(<<[status |-> "ok", content |-> c]>>, HashesAlike), ex) :
         c \in Buffers, ex \in {{}, ShortcutExes \ {sReadme}}}

\* the buffer read from shortcuts.vdf at line 313
Buffer == disk.userdata[1].content

ParserInit ==
    /\ steam_path = SteamRoot
    /\ disk \in ParserDisks
    /\ library_paths = <<>>
    /\ games_cache = [id |-> 0, items |-> <<>>]
    /\ cache_timestamp = 0
    /\ acf_memo = <<>>
    /\ now = StartTime
    /\ scans = 0
    /\ edits = 0
    /\ last = NoCall

\* what a call of the parser hands to its caller
Parsed(r) == [op |-> "parse", raised |-> r.raised, games |-> r.games]

\* _parse_shortcuts_binary(content)
ParseShortcuts ==
    /\ last = NoCall
    /\ last' = Parsed(ParseShortcutsBinary(disk.str_hash, Buffer))
    /\ UNCHANGED <<steam_path, library_paths, games_cache, cache_timestamp, acf_memo,
                   disk, now, scans, edits>>

ParserNext == ParseShortcuts

ParserSpec == ParserInit /\ [][ParserNext]_vars

(***************************************************************************)
(* Launching: the calls of launch_game(appid) on the disks of Init.       *)
(***************************************************************************)
LaunchIds ==
    { <<"1","0">>, <<"2","0">>, cNonSteamPrefix \o <<"7">>, cNonSteamPrefix \o <<"2","0">>,
      <<"9","9","9">> }

\* what a call of launch_game(appid) leaves: the exception of the refresh is
\* caught at line 635, so the call itself returns
LaunchOutcome(appid, r, l) ==
    [op |-> "launch", appid |-> appid, time |-> now, raised |-> FALSE,
     scanned |-> r.scanned, refresh_raised |-> r.raised,
     started |-> l.started, success |-> l.success]

LaunchWith(appid, startfile_ok, r) ==
    /\ r.scanned => scans < MaxScans
    /\ Refreshed(r)
    /\ last' = LaunchOutcome(appid, r, LaunchGame(r, disk, appid, startfile_ok))
    /\ UNCHANGED <<steam_path, disk, now, edits>>

\* launch_game(appid)
Launch(appid, startfile_ok) ==
    LaunchWith(appid, startfile_ok,
               RefreshGameCache(Manager, steam_path, disk, now, scans + 1))

LaunchNext ==
    \/ \E appid \in LaunchIds : \E startfile_ok \in BOOLEAN : Launch(appid, startfile_ok)
    \/ Tick
    \/ InstallManifest

LaunchSpec == Init /\ [][LaunchNext]_vars

(***************************************************************************)
(* Properties.                                                             *)
(***************************************************************************)
\* a step of get_all_games or search_games that is no stuttering step
CallStep == last' # last \/ scans' # scans

\* the last call was a search with a non-empty query that returned
SearchDone == last.op = "search" /\ ~last.raised /\ last.query # <<>>

sHal == <<"h","a","l">>

\* C1: a get_all_games() less than cache_duration after the last completed
\* refresh starts no re-scan and returns the dict the previous get_all_games()
\* returned; one made when cache_duration has elapsed starts exactly one re-scan.
C1_TtlWindow ==
    [][(CallStep /\ last'.op = "getAll") =>
          IF now - cache_timestamp < cache_duration
          THEN /\ scans' = scans
               /\ ~last'.scanned /\ ~last'.raised
               /\ games_cache' = games_cache
               /\ last'.snapshot = games_cache.id
               /\ (last.op = "getAll" /\ ~last.raised => last'.snapshot = last.snapshot)
          ELSE scans' = scans + 1 /\ last'.scanned]_vars

\* C1 witness: after a re-scan at TTL expiry, a later get_all_games() served from the cache
C1_Witness ==
    /\ last.op = "getAll" /\ ~last.scanned /\ ~last.raised
    /\ scans = 2
    /\ cache_timestamp >= StartTime + cache_duration
    /\ games_cache.items # <<>>

\* C2: a call that fails leaves the snapshot a reader sees as the previous
\* refresh left it; the snapshot never holds part of a scan's records.
C2_AtomicSwap ==
    [][(CallStep /\ last'.raised) => games_cache'.items = games_cache.items]_vars

\* C3: the timestamp changes only in a refresh that completes, to the time of
\* that refresh; a refresh that raises keeps it, the cache stays stale, and the
\* next call re-scans.
C3_TimestampOnCompletion ==
    [][/\ cache_timestamp' # cache_timestamp =>
              last'.scanned /\ ~last'.raised /\ cache_timestamp' = now
       /\ last'.raised =>
              /\ cache_timestamp' = cache_timestamp
              /\ now' - cache_timestamp' >= cache_duration
       /\ (CallStep /\ last.raised) => last'.scanned]_vars

\* C3 witness: a refresh completed, a later one raised and kept its timestamp,
\* and the call after that re-scanned
C3_Witness ==
    /\ last.raised /\ last.scanned
    /\ scans = 3
    /\ cache_timestamp = StartTime
    /\ now > cache_timestamp

\* C4: when the installation is not found, every call returns normally with
\* an empty snapshot and an empty result.
C4_NotFoundIsEmpty ==
    steam_path = NoPath =>
        /\ games_cache.items = <<>>
        /\ ~last.raised
        /\ last.result = <<>>

\* C4 witness: a search for "hal" without an installation, over a disk that
\* holds manifests and shortcuts
C4_Witness ==
    /\ steam_path = NoPath
    /\ last.op = "search" /\ last.query = sHal
    /\ \E i \in DOMAIN disk.libs : Len(disk.libs[i].files) = 3
    /\ disk.userdata # <<>>

\* a manifest the claim calls well-formed: it parses to an AppState block
\* with an appid and with numbers for LastPlayed and Playtime
WellFormed(f) ==
    /\ IsManifestName(f.name)
    /\ f.content.status = "ok"
    /\ HasKey(f.content.data, "AppState")
    /\ Entry(f.content.data, "AppState").t = "dict"
    /\ HasKey(Entry(f.content.data, "AppState").d, "appid")
    /\ ~ParseInt(GetStr(Entry(f.content.data, "AppState").d, "LastPlayed", <<"0">>)).raised
    /\ ~ParseInt(GetStr(Entry(f.content.data, "AppState").d, "Playtime", <<"0">>)).raised

\* C5: a re-scan never raises, and after it the snapshot holds a record for
\* every well-formed manifest of the scanned libraries.
C5_MalformedSkipped ==
    [][(CallStep /\ last'.scanned) =>
          /\ ~last'.raised
          /\ \A i \in DOMAIN library_paths' :
                 \A j \in DOMAIN Listing(disk, library_paths'[i]) :
                     WellFormed(Listing(disk, library_paths'[i])[j]) =>
                         DictHas(games_cache'.items,
                                 GetStr(Entry(Listing(disk, library_paths'[i])[j].content.data,
                                              "AppState").d, "appid", <<>>))]_vars

\* the native records a re-scan produces in the current state
NativeItems ==
    ScanLibraries([items |-> <<>>, memo |-> acf_memo, raised |-> FALSE],
                  disk, FindLibraryPaths(steam_path, disk)).items

\* the first non-native record with identifier id
FirstNonSteam(games, id) ==
    games[CHOOSE i \in DOMAIN games :
              games[i].appid = id /\ \A j \in 1..(i - 1) : games[j].appid # id]

\* the merge the claim describes, of native records and non-native records
\* into the snapshot items
MergedNativeFirst(native, nonsteam, items) ==
    /\ \A i \in DOMAIN native :
           DictHas(items, native[i].key) /\ DictGet(items, native[i].key) = native[i].val
    /\ \A i \in DOMAIN nonsteam :
           /\ DictHas(items, nonsteam[i].appid)
           /\ ~DictHas(native, nonsteam[i].appid) =>
                  DictGet(items, nonsteam[i].appid) = FirstNonSteam(nonsteam, nonsteam[i].appid)
    /\ Len(items) = Cardinality({native[i].key : i \in DOMAIN native}
                                \cup {nonsteam[i].appid : i \in DOMAIN nonsteam})

\* C6: after a completed refresh every native record is in the snapshot
\* under its identifier, a non-native record with the identifier of a native
\* one is absent, and of the other non-native records the first with its
\* identifier is the one in the snapshot.
C6_NativePreferred ==
    [][(CallStep /\ last'.scanned /\ ~last'.raised) =>
          MergedNativeFirst(NativeItems, FindNonSteamGames(steam_path, disk),
                            games_cache'.items)]_vars

\* C6 witness: a completed refresh over a native record and a shortcut that
\* share the identifier nonsteam_7; the snapshot holds the native one
C6_Witness ==
    /\ last.scanned /\ ~last.raised
    /\ DictHas(games_cache.items, cNonSteamPrefix \o <<"7">>)
    /\ DictGet(games_cache.items, cNonSteamPrefix \o <<"7">>).is_steam_game
    /\ \E g \in Range(FindNonSteamGames(steam_path, disk)) : g.appid = cNonSteamPrefix \o <<"7">>

\* the position of a record in the snapshot's iteration order
Position(g) == CHOOSE i \in DOMAIN games_cache.items : games_cache.items[i].val = g

\* C7: a search with a non-empty query returns the records in descending
\* score order, records of equal score in the snapshot's iteration order.
C7_DescendingStable ==
    SearchDone =>
        /\ last.result = Games(last.scored)
        /\ \A i, j \in DOMAIN last.scored :
               i < j =>
                   \/ last.scored[i].score > last.scored[j].score
                   \/ /\ last.scored[i].score = last.scored[j].score
                      /\ Position(last.scored[i].game) < Position(last.scored[j].game)

\* C7 witness: a result in which two records tie and the sort moved a record
\* ahead of one that precedes it in the snapshot
C7_Witness ==
    /\ SearchDone
    /\ \E i, j \in DOMAIN last.scored :
           i < j /\ last.scored[i].score = last.scored[j].score
    /\ \E i, j \in DOMAIN last.scored :
           i < j /\ Position(last.scored[i].game) > Position(last.scored[j].game)

\* the score as the claim states it: the first applicable rung of the ladder ...
ClaimBase(title, q) ==
    LET rungs == <<title = q, StartsWith(title, q), WordSearch(title, q), Contains(title, q)>>
        points == <<100, 80, 60, 40>>
        applicable == {i \in DOMAIN rungs : rungs[i]}
    IN  IF applicable = {} THEN 0
        ELSE points[CHOOSE i \in applicable : \A j \in applicable : i <= j]

\* ... plus 20 when played less than 7 days ago, else 10 when less than 30 days ago
ClaimRecency(last_played, t) ==
    IF last_played = 0 THEN 0
    ELSE IF t - last_played < 7 * 86400 THEN 20
    ELSE IF t - last_played < 30 * 86400 THEN 10
    ELSE 0

\* ... plus 5 for more than 60 minutes of playtime
ClaimPlaytime(minutes) == IF minutes > 60 THEN 5 ELSE 0

ClaimScore(g, q, t) ==
    ClaimBase(Lower(g.name), q) + ClaimRecency(g.last_played, t)
        + ClaimPlaytime(g.playtime_minutes)

\* C8: the score a search ranks a record by is base + recency + playtime as
\* the claim states them, for the lowercased and stripped query; the records
\* ranked are those whose score is positive.
C8_ScoreFormula ==
    SearchDone =>
        /\ \A k \in DOMAIN games_cache.items :
               IF ClaimScore(games_cache.items[k].val, NormalizeQuery(last.query), last.time) > 0
               THEN [game |-> games_cache.items[k].val,
                     score |-> ClaimScore(games_cache.items[k].val,
                                          NormalizeQuery(last.query), last.time)]
                        \in Range(last.scored)
               ELSE games_cache.items[k].val \notin Range(last.result)
        /\ \A i \in DOMAIN last.scored :
               \E k \in DOMAIN games_cache.items :
                   games_cache.items[k].val = last.scored[i].game

\* C8 witness: a record played exactly 7 days before the search, with more
\* than 60 minutes of playtime, matched as a substring: 40 + 10 + 5
C8_Witness ==
    /\ SearchDone
    /\ \E i \in DOMAIN last.scored :
           /\ last.scored[i].score = 55
           /\ last.time - last.scored[i].game.last_played = 7 * 86400

\* C9: a search with a non-empty query returns only records whose title
\* contains the query.
C9_OnlyMatches ==
    SearchDone =>
        \A i \in DOMAIN last.result :
            Contains(Lower(last.result[i].name), NormalizeQuery(last.query))

\* the case of C10: search("hal") over the snapshot Half-Life, Portal, Halo,
\* no record with a recency or playtime boost
HalCase ==
    /\ last.op = "search" /\ ~last.raised /\ last.query = sHal
    /\ [i \in DOMAIN games_cache.items |-> games_cache.items[i].val.name]
           = <<sHalfLife, sPortal, sHalo>>
    /\ \A i \in DOMAIN games_cache.items :
           /\ games_cache.items[i].val.last_played = 0
           /\ games_cache.items[i].val.playtime_minutes = 0

\* C10 as stated: "Halo" is ranked strictly above "Half-Life".
C10_HaloFirst ==
    HalCase =>
        \E i, j \in DOMAIN last.scored :
            /\ i < j
            /\ last.scored[i].game.name = sHalo
            /\ last.scored[j].game.name = sHalfLife
            /\ last.scored[i].score > last.scored[j].score

\* C10 amended: both "Half-Life" and "Halo" start with "hal" and score 80;
\* the result is "Half-Life", "Halo" in snapshot order, and "Portal" (score 0)
\* is not in it.
C10_BothPrefix ==
    HalCase =>
        /\ [i \in DOMAIN last.scored |-> <<last.scored[i].game.name, last.scored[i].score>>]
               = <<<<sHalfLife, 80>>, <<sHalo, 80>>>>
        /\ last.result = Games(last.scored)

\* C10 witness: the search of the case has been made
C10_Witness == HalCase /\ Len(last.result) = 2

\* the (name, executablePath) pairs of a parser result
Pairs(games) == [i \in DOMAIN games |-> <<games[i].appname, games[i].exe>>]

sExeSuffix == <<".", "e", "x", "e">>

\* C11: every pair the binary shortcut parser returns has an executable path
\* that ends with the native-executable suffix and exists on disk at parse
\* time; records naming executables that do not exist yield no pair.
C11_ExistingExecutables ==
    last.op = "parse" =>
        \A i \in DOMAIN last.games :
            /\ EndsWith(last.games[i].exe, sExeSuffix)
            /\ last.games[i].exe \in disk.exes

\* C12: a buffer that is exactly two well-formed records whose executables
\* exist yields exactly two pairs, the i-th carrying the i-th record's name and
\* executable path, whatever the buffer's length.
C12_TwoRecords ==
    last.op = "parse" =>
        \A n1, n2 \in ShortcutNames : \A e1, e2 \in ShortcutExes :
            (Buffer = ShortcutRecord(n1, e1) \o ShortcutRecord(n2, e2) /\ {e1, e2} \subseteq disk.exes)
                => Pairs(last.games) = <<<<n1, e1>>, <<n2, e2>>>>

\* the loop of the parser over the buffer of the state
Extraction == ScanShortcuts(disk.str_hash, Buffer, 0, <<>>)

\* C17: the binary shortcut parser never raises; when a fault ends the
\* extraction it returns the pairs accepted before the fault, in order.
C17_NeverRaises ==
    last.op = "parse" =>
        /\ ~last.raised
        /\ last.games = Extraction.games

\* C17 witness: the parser returned the one pair it had accepted when indexing
\* past the end of the buffer ended the extraction
C17_Witness ==
    /\ last.op = "parse"
    /\ Extraction.fault
    /\ Pairs(last.games) = <<<<sDoom, ExeDoom>>>>

\* the buffer holds a field of this marker that lies inside the buffer with all
\* the bytes its length prefix announces, and decodes to s
CompleteField(content, marker, s) ==
    \E i \in 0..(Len(content) - Len(marker) - 1) :
        /\ Slice(content, i, i + Len(marker)) = marker
        /\ i + Len(marker) + 1 + content[i + Len(marker) + 1] <= Len(content)
        /\ Decode(Slice(content, i + Len(marker) + 1,
                        i + Len(marker) + 1 + content[i + Len(marker) + 1])) = s

\* C18: no pair the binary shortcut parser returns holds a string cut short
\* by the end of the buffer: each name and each executable path is a field with
\* all the bytes its length prefix announces.
C18_NoTruncatedField ==
    last.op = "parse" =>
        \A i \in DOMAIN last.games :
            /\ CompleteField(Buffer, appname_pattern, last.games[i].appname)
            /\ CompleteField(Buffer, exe_pattern, last.games[i].exe)

\* the library directory of the installation root
RootLibraryOf(sp) == Join(sp, cSteamapps)

\* the entries of the library index's LibraryFolders block, if it has one
IndexEntries(index) ==
    IF index.status = "ok" /\ HasKey(index.data, "LibraryFolders")
       /\ Entry(index.data, "LibraryFolders").t = "dict"
    THEN Entry(index.data, "LibraryFolders").d
    ELSE <<>>

\* the library roots the index enumerates as string leaves
LeafRoots(index) ==
    {IndexEntries(index)[i].s : i \in {j \in DOMAIN IndexEntries(index) :
                                            IndexEntries(index)[j].t = "str"}}

\* the library roots the index enumerates as nested blocks with a "path" entry
BlockRoots(index) ==
    {GetStr(IndexEntries(index)[i].d, "path", <<>>) :
         i \in {j \in DOMAIN IndexEntries(index) :
                    /\ IndexEntries(index)[j].t = "dict"
                    /\ HasKey(IndexEntries(index)[j].d, "path")}}

C14_LeavesAndBlocks ==
    (scans > 0 /\ steam_path # NoPath /\ DirExists(disk, RootLibraryOf(steam_path))) =>
        \A r \in LeafRoots(disk.index) \cup BlockRoots(disk.index) :
            DirExists(disk, Join(r, cSteamapps)) =>
                \E i \in DOMAIN library_paths : library_paths[i] = Join(r, cSteamapps)

\* C15: every native record of the snapshot with an install subdirectory d
\* has libraryPath L, a discovered library directory, and installPath
\* L/common/d.
C15_InstallPathInLibrary ==
    \A k \in DOMAIN games_cache.items :
        (games_cache.items[k].val.is_steam_game /\ games_cache.items[k].val.install_path # NoPath) =>
            \E i \in DOMAIN library_paths :
                /\ games_cache.items[k].val.library_path = library_paths[i]
                /\ DirName(games_cache.items[k].val.install_path) = Join(library_paths[i], cCommon)

\* the snapshot a re-scan gives when every manifest is read from disk
ReadAnew ==
    Rescan([Manager EXCEPT !.memo = <<>>], steam_path, disk, now, scans + 1,
           FindLibraryPaths(steam_path, disk))

SameItems(anew, items) == ~anew.raised => items = anew.m.games_cache.items

\* C19: the snapshot of a completed re-scan holds, for every manifest, the
\* record of the content the file has at the time of the re-scan.
C19_NoStaleParse ==
    [][(CallStep /\ last'.scanned /\ ~last'.raised) =>
          SameItems(ReadAnew, games_cache'.items)]_vars

\* what the claim has a launch of the record game start
ClaimStarted(game) ==
    IF game.is_steam_game THEN <<<<cSteamUrl \o game.appid>>>>
    ELSE IF \E e \in disk.exes : game.install_path = <<e>> THEN <<game.install_path>>
    ELSE <<>>

\* C16: launch(identifier) leaves the snapshot fresh, never raises, and
\* calls the launcher at most once: with the platform URI for a native record
\* of the snapshot, with the executable path for a non-native record whose
\* executable exists, and not at all (returning failure) for an identifier
\* that is no key of the snapshot or whose executable is missing.
C16_LaunchOnlyKnown ==
    last.op = "launch" =>
        /\ ~last.raised
        /\ Len(last.started) <= 1
        /\ last.started = <<>> => ~last.success
        /\ IF last.refresh_raised THEN last.started = <<>>
           ELSE /\ last.time - cache_timestamp < cache_duration
                /\ IF DictHas(games_cache.items, last.appid)
                   THEN last.started = ClaimStarted(DictGet(games_cache.items, last.appid))
                   ELSE last.started = <<>>

\* C16 witness: the launch of a shortcut of the snapshot whose executable
\* exists started that executable
C16_Witness ==
    /\ last.op = "launch"
    /\ last.appid = cNonSteamPrefix \o <<"7">>
    /\ last.started = <<<<ExeDoom>>>>
    /\ last.success
    /\ DictHas(games_cache.items, last.appid)
    /\ ~DictGet(games_cache.items, last.appid).is_steam_game

====
